---- MODULE Spec2Model ----
(***************************************************************************)
(* A model of two subproviders of the provider engine:                     *)
(*   - VmSubprovider (src/subproviders/vm.js) with its FallbackAsyncStore  *)
(*     and the Stoplight gate it serialises the engine with;               *)
(*   - HookedWalletSubprovider (src/unnamed/part_000).                     *)
(* Six specifications share the module: SpecStore (one FallbackAsyncStore  *)
(* driven by get / set / fetch completion), SpecWallet (one request handed *)
(* to HookedWalletSubprovider.handleRequest), SpecVm (requests handed to   *)
(* VmSubprovider.sendAsync), SpecGate (the same requests with one engine   *)
(* outcome, for the gate's queue), SpecExec (eth_call requests together    *)
(* with the engine's state lookups and their upstream fetches) and         *)
(* SpecAccount (one _fetchAccount call).  JavaScript is single threaded:   *)
(* every action is one callback run to completion.                         *)
(***************************************************************************)
EXTENDS Integers, Sequences, FiniteSets, TLC

\* ---------------------------------------------------------------- bounds
\* number of get calls issued against the store
MaxGets == 3
\* number of set calls issued against the store
MaxSets == 2
\* number of requests handed to VmSubprovider.sendAsync
NumReqs == 2
\* number of requests handed to VmSubprovider.sendAsync when only the gate is
\* followed (SpecGate)
NumAwaits == 3
\* number of requests handed to VmSubprovider.sendAsync when the state lookups
\* of the engine are followed (SpecExec)
NumExecs == 2
\* number of times the root provider's current block advances
MaxBlocks == 1

\* JavaScript's undefined: what a missing property reads as
Undefined == "undefined"

\* ---------------------------------------------------------------- state
VARIABLES
  cache,        \* self.cache: address -> code, Undefined when the key is absent
  gets,         \* the get calls issued so far, each with its callback's fate
  fetchCalls,   \* history: how often self.fetch was invoked, per key
  lastSet,      \* history: the value of the latest set per key (Undefined: never set)
  setCount,     \* history: number of set calls so far
  lastOp        \* history: the latest store operation; for a get, whether
                \* the operation right before it was a set of the same key

storeVars == <<cache, gets, fetchCalls, lastSet, setCount, lastOp>>

VARIABLES
  wpc,        \* where the request is: idle, getAccounts, approve, autofill, sign,
              \* submit, ended (end was called), passed (next was called)
  wPayload,   \* the payload object the handler holds
  wHanded,    \* history: the payload as it was handed to handleRequest
  wCalls,     \* history: number of calls of each collaborator
  wSignArgs,  \* history: the transactions handed to signTransaction
  wEmitted,   \* history: the payloads emitted through self.emitPayload, in order
  wPar,       \* async.parallel of fillInTxExtras: state of each task, the
              \* results collected, whether its final callback has been called
  wEnds,      \* history: the calls of end, each [err, result]
  wNexts,     \* history: number of calls of next
  wSteps,     \* history: the pipeline steps started, in order
  wOutcomes   \* history: what the collaborators and the upstream provider
              \* answered, in order: [step, task, err, val]

walletVars == <<wpc, wPayload, wHanded, wCalls, wSignArgs, wEmitted, wPar, wEnds,
                wNexts, wSteps, wOutcomes>>

VARIABLES
  isLocked,   \* the gate self._ready: closed (TRUE) or open
  waiting,    \* the gate's queue: continuations enqueued while it was closed
  runnable,   \* continuations scheduled to run, in the order they will run
  vpc,        \* per request: pending (at the gate or scheduled), engine
              \* (vm.runTx started, not yet called back), done, thrown (an
              \* exception ended the callback)
  vPayload,   \* per request: the payload handed to sendAsync
  vEngineArg, \* per request: the arguments of its vm.runTx calls, in order
  vResp,      \* history, per request: the calls of sendAsync's cb, [err, res]
  vStops,     \* history, per request: calls of self._ready.stop()
  vGos,       \* history, per request: calls of self._ready.go()
  vOutcome,   \* history, per request: how its engine run ended, [err, results]
  vQueuedAtGo, \* history: the gate's queue as it was at the latest call of go()
  currentBlock, \* self.rootProvider.currentBlock
  vBlockNumber, \* per request: var blockNumber of its continuation (Undefined
                \* until the continuation has run)
  codeStores,   \* the FallbackAsyncStore objects created so far: the cache of each
  vCodeStore,   \* per request: var codeStore of its continuation, an index of
                \* codeStores (0 until the continuation has run)
  tries,        \* the FallbackStorageTrie objects created so far, each with the
                \* address and block number its fetchStorage is bound to and its
                \* local slots
  vTrie,        \* per request: the storage trie handed to its engine (0: none)
  vFetches,     \* per request: the payloads emitted to the root provider and not
                \* yet answered
  vFetchErr     \* per request: the error a state lookup handed to the engine

vmVars == <<isLocked, waiting, runnable, vpc, vPayload, vEngineArg, vResp, vStops,
            vGos, vOutcome, vQueuedAtGo, currentBlock, vBlockNumber, codeStores,
            vCodeStore, tries, vTrie, vFetches, vFetchErr>>

VARIABLES
  aArgs,      \* the arguments of the _fetchAccount call: blockNumber, address
  aUpstream,  \* the account as the upstream provider holds it at that block
  aEmitted,   \* history: the payloads _fetchAccount emitted, in order
  aPar,       \* its async.parallel: the state of each task, the results
              \* collected, whether the final callback has been called
  aCallbacks  \* history: the calls of _fetchAccount's cb, each [err, account]

accountVars == <<aArgs, aUpstream, aEmitted, aPar, aCallbacks>>

vars == <<storeVars, walletVars, vmVars, accountVars>>

\* what the actions of one component leave alone
StoreFrame == UNCHANGED <<walletVars, vmVars, accountVars>>
WalletFrame == UNCHANGED <<storeVars, vmVars, accountVars>>
VmFrame == UNCHANGED <<storeVars, walletVars, accountVars>>
AccountFrame == UNCHANGED <<storeVars, walletVars, vmVars>>

\* =========================================================================
\* FallbackAsyncStore (vm.js:237-261)
\* =========================================================================

\* addresses used as keys of the code store
Keys == {"0xa1", "0xa2"}
\* code values, written by the engine or returned by eth_getCode
Values == {"0x60", "0x00"}

NoOp == [op |-> "none", key |-> Undefined, val |-> Undefined, afterSet |-> FALSE]

\* function FallbackAsyncStore(fetchValue): self.cache = {}
InitStore ==
  /\ cache = [k \in Keys |-> Undefined]
  /\ gets = <<>>
  /\ fetchCalls = [k \in Keys |-> 0]
  /\ lastSet = [k \in Keys |-> Undefined]
  /\ setCount = 0
  /\ lastOp = NoOp

\* faulty variant of CacheHit: the cache is never consulted
CacheHitNever(c, k) == FALSE

\* get: var code = self.cache[address]; if (code !== undefined)
CacheHit(c, k) == c[k] # Undefined

\* self.cache[address] = value
CachePut(c, k, v) == [c EXCEPT ![k] = v]

\* FallbackAsyncStore.prototype.get: answered from the cache, or self.fetch is
\* invoked and the callback stays pending until the fetch completes
StoreGet(k) ==
  /\ StoreFrame
  /\ Len(gets) < MaxGets
  /\ IF CacheHit(cache, k)
       THEN /\ gets' = Append(gets, [key |-> k, st |-> "returned", val |-> cache[k],
                                     fetched |-> FALSE])
            /\ UNCHANGED fetchCalls
       ELSE /\ gets' = Append(gets, [key |-> k, st |-> "fetching", val |-> Undefined,
                                     fetched |-> TRUE])
            /\ fetchCalls' = [fetchCalls EXCEPT ![k] = @ + 1]
  /\ lastOp' = [op |-> "get", key |-> k, val |-> Undefined,
                 afterSet |-> (lastOp.op = "set" /\ lastOp.key = k)]
  /\ UNCHANGED <<cache, lastSet, setCount>>

\* the fetch callback of get, success: self.cache[address] = value; cb(null, value)
FetchReturn(g, v) ==
  /\ StoreFrame
  /\ g \in 1..Len(gets)
  /\ gets[g].st = "fetching"
  /\ cache' = CachePut(cache, gets[g].key, v)
  /\ gets' = [gets EXCEPT ![g] = [@ EXCEPT !.st = "returned", !.val = v]]
  /\ lastOp' = [op |-> "fetchReturn", key |-> gets[g].key, val |-> v, afterSet |-> FALSE]
  /\ UNCHANGED <<fetchCalls, lastSet, setCount>>

\* the fetch callback of get, failure: if (err) return cb(err)
FetchFail(g) ==
  /\ StoreFrame
  /\ g \in 1..Len(gets)
  /\ gets[g].st = "fetching"
  /\ gets' = [gets EXCEPT ![g] = [@ EXCEPT !.st = "failed"]]
  /\ lastOp' = [op |-> "fetchFail", key |-> gets[g].key, val |-> Undefined,
                 afterSet |-> FALSE]
  /\ UNCHANGED <<cache, fetchCalls, lastSet, setCount>>

\* faulty variant of StoreSet: the write is also sent to the fallback source
StoreSetWriteThrough(k, v) ==
  /\ StoreFrame
  /\ setCount < MaxSets
  /\ cache' = CachePut(cache, k, v)
  /\ lastSet' = [lastSet EXCEPT ![k] = v]
  /\ setCount' = setCount + 1
  /\ lastOp' = [op |-> "set", key |-> k, val |-> v, afterSet |-> FALSE]
  /\ fetchCalls' = [fetchCalls EXCEPT ![k] = @ + 1]
  /\ UNCHANGED gets

\* FallbackAsyncStore.prototype.set: self.cache[address] = code; cb()
StoreSet(k, v) ==
  /\ StoreFrame
  /\ setCount < MaxSets
  /\ cache' = CachePut(cache, k, v)
  /\ lastSet' = [lastSet EXCEPT ![k] = v]
  /\ setCount' = setCount + 1
  /\ lastOp' = [op |-> "set", key |-> k, val |-> v, afterSet |-> FALSE]
  /\ UNCHANGED <<gets, fetchCalls>>

NextStore ==
  \/ \E k \in Keys : StoreGet(k)
  \/ \E g \in 1..MaxGets, v \in Values : FetchReturn(g, v)
  \/ \E g \in 1..MaxGets : FetchFail(g)
  \/ \E k \in Keys, v \in Values : StoreSet(k, v)

\* ---------------------------------------------------------------- store claims

\* some get for key k is still waiting for its fetch
FetchInFlight(k) == \E g \in 1..Len(gets) : gets[g].key = k /\ gets[g].st = "fetching"

\* C4: once set(key, v) has run, the cache holds v for that key (and so every
\* later get(key) is answered v) until the next set(key): no fetch completion
\* replaces a value written by set.
C4_SetNeverReplacedByFetch ==
  \A k \in Keys : lastSet[k] # Undefined => cache[k] = lastSet[k]

\* C5: for every key never set locally on which get was called, the fetch
\* function has been invoked exactly once, however the gets interleave with the
\* completion of the fetch.
C5_ExactlyOneFetchPerUnsetKey ==
  \A k \in Keys :
    (lastSet[k] = Undefined /\ \E g \in 1..Len(gets) : gets[g].key = k)
      => fetchCalls[k] = 1

\* the latest operation is a get issued right after a set of the same key
GetRightAfterSet == lastOp.op = "get" /\ lastOp.afterSet

\* C6: a get(key) issued immediately after set(key, v) is answered v at once and
\* does not invoke fetch, whatever the state of the store before the set (also
\* with a fetch for the key in flight).
C6_GetAfterSetIsLocal ==
  GetRightAfterSet
    => /\ gets[Len(gets)].key = lastOp.key
       /\ gets[Len(gets)].st = "returned"
       /\ gets[Len(gets)].val = lastSet[lastOp.key]
       /\ ~ gets[Len(gets)].fetched

\* C6 witness: a get right after a set of the same key, answered with the set
\* value while an earlier fetch for that key is still in flight
C6_Witness ==
  /\ GetRightAfterSet
  /\ gets[Len(gets)].val = lastSet[lastOp.key]
  /\ gets[Len(gets)].val \in Values
  /\ FetchInFlight(lastOp.key)

\* C15: a step that is a call of set changes nothing but the cache entry of one
\* key: the fetch function is not invoked (which is the store's only way to
\* reach the upstream provider) and no get is started, answered or failed by it.
C15_SetChangesOnlyCache ==
  [][ setCount' # setCount
        => /\ fetchCalls' = fetchCalls
           /\ gets' = gets
           /\ \E k \in Keys : \A j \in Keys \ {k} : cache'[j] = cache[j] ]_vars

\* a set has just written a key that was never fetched, while the fetch of a
\* get is in flight: the key's fetch count is still zero
C15_Witness ==
  /\ lastOp.op = "set"
  /\ cache[lastOp.key] = lastOp.val
  /\ fetchCalls[lastOp.key] = 0
  /\ \E g \in 1..Len(gets) : gets[g].st = "fetching"

\* =========================================================================
\* HookedWalletSubprovider (src/unnamed/part_000)
\* =========================================================================

\* JavaScript's null: the err argument of a callback that succeeded
Null == "null"

\* methods a payload may carry (the last two are resolved by neither handler)
Methods == {"eth_coinbase", "eth_accounts", "eth_sendTransaction",
            "eth_call", "eth_estimateGas", "eth_getBalance", "eth_blockNumber"}

\* transaction fields that autofill may supply
AutofillFields == {"nonce", "gasPrice", "gas"}

\* what the caller put into a field it supplied
CallerValue == [from |-> "0xa1", to |-> "0xa2", value |-> "0x10",
                nonce |-> "0x1", gasPrice |-> "0x2", gas |-> "0x5208"]

\* caller-supplied transactions: from, to and value, and any subset of the
\* fields autofill may supply
CallerTxs ==
  { [f \in {"from", "to", "value"} \cup S |-> CallerValue[f]] : S \in SUBSET AutofillFields }

\* the payloads handed to handleRequest
WalletPayloads ==
  { [method |-> "eth_sendTransaction", params |-> <<tx>>] : tx \in CallerTxs }
  \cup { [method |-> m, params |-> <<>>] : m \in Methods \ {"eth_sendTransaction"} }

\* answers of the upstream provider to the autofill fetches
GasPriceReplies == {"0x4", "0x3b"}
NonceReplies == {"0x7", "0x0"}
\* answers of getAccounts
AccountLists == {<<>>, <<"0xa1">>, <<"0xa1", "0xa2">>}
\* the raw transaction returned by signTransaction and the hash returned upstream
RawTx == "0xf86c"
TxHash == "0xh1"

NoPayload == [method |-> Undefined, params |-> <<>>]

ParIdle == [gasPrice |-> "idle", nonce |-> "idle",
            results |-> [gasPrice |-> Undefined, nonce |-> Undefined],
            called |-> FALSE]

InitWallet ==
  /\ wpc = "idle"
  /\ wPayload = NoPayload
  /\ wHanded = NoPayload
  /\ wCalls = [getAccounts |-> 0, approveTransaction |-> 0, signTransaction |-> 0]
  /\ wSignArgs = <<>>
  /\ wEmitted = <<>>
  /\ wPar = ParIdle
  /\ wEnds = <<>>
  /\ wNexts = 0
  /\ wSteps = <<>>
  /\ wOutcomes = <<>>

\* end(err) / end(null, result)
End(err, result) ==
  /\ wEnds' = Append(wEnds, [err |-> err, result |-> result])
  /\ wpc' = "ended"

\* switch(payload.method): the case taken
Dispatch(method) ==
  IF method \in {"eth_coinbase", "eth_accounts", "eth_sendTransaction"}
    THEN method ELSE "default"

\* HookedWalletSubprovider.prototype.handleRequest, up to its first callback
HandleRequest(p) ==
  /\ WalletFrame
  /\ wpc = "idle"
  /\ wPayload' = p
  /\ wHanded' = p
  /\ CASE Dispatch(p.method) \in {"eth_coinbase", "eth_accounts"} ->
            /\ wCalls' = [wCalls EXCEPT !.getAccounts = @ + 1]
            /\ wpc' = "getAccounts"
            /\ UNCHANGED <<wNexts, wSteps>>
       [] Dispatch(p.method) = "eth_sendTransaction" ->
            /\ wCalls' = [wCalls EXCEPT !.approveTransaction = @ + 1]
            /\ wpc' = "approve"
            /\ wSteps' = Append(wSteps, "approve")
            /\ UNCHANGED wNexts
       [] OTHER ->
            /\ wNexts' = wNexts + 1
            /\ wpc' = "passed"
            /\ UNCHANGED <<wCalls, wSteps>>
  /\ UNCHANGED <<wSignArgs, wEmitted, wPar, wEnds, wOutcomes>>

\* var result = accounts[0] || null
FirstAccount(accounts) == IF Len(accounts) > 0 THEN accounts[1] ELSE Null

\* the callback of getAccounts, for eth_coinbase and eth_accounts
GetAccountsReturn(err, accounts) ==
  /\ WalletFrame
  /\ wpc = "getAccounts"
  /\ IF err # Null
       THEN End(err, Undefined)
       ELSE IF wPayload.method = "eth_coinbase"
              THEN End(Null, FirstAccount(accounts))
              ELSE End(Null, accounts)
  /\ UNCHANGED <<wPayload, wHanded, wCalls, wSignArgs, wEmitted, wPar, wNexts, wSteps,
                 wOutcomes>>

\* faulty variant of AfterApprove: didApprove is not looked at
AfterApproveIgnoreAnswer(err, didApprove) ==
  IF err # Null THEN "error" ELSE "autofill"

\* the approval callback: if (err) return end(err);
\* if (!didApprove) return end(new Error('User denied transaction.'))
AfterApprove(err, didApprove) ==
  IF err # Null THEN "error"
  ELSE IF ~ didApprove THEN "denied"
  ELSE "autofill"

DeniedError == "User denied transaction."

\* the two tasks async.parallel starts in fillInTxExtras, in key order
AutofillPayloads(txData) ==
  << [method |-> "eth_gasPrice", params |-> <<>>],
     [method |-> "eth_getTransactionCount", params |-> <<txData["from"], "pending">>] >>

\* the callback of approveTransaction; when approved, fillInTxExtras starts
\* both fetches
ApproveReturn(err, didApprove) ==
  /\ WalletFrame
  /\ wpc = "approve"
  /\ wOutcomes' = Append(wOutcomes, [step |-> "approve", task |-> "approve", err |-> err,
                                     val |-> IF didApprove THEN "true" ELSE "false"])
  /\ CASE AfterApprove(err, didApprove) = "error" ->
            /\ End(err, Undefined)
            /\ UNCHANGED <<wEmitted, wPar, wSteps>>
       [] AfterApprove(err, didApprove) = "denied" ->
            /\ End(DeniedError, Undefined)
            /\ UNCHANGED <<wEmitted, wPar, wSteps>>
       [] OTHER ->
            /\ wEmitted' = wEmitted \o AutofillPayloads(wPayload.params[1])
            /\ wPar' = [wPar EXCEPT !.gasPrice = "pending", !.nonce = "pending"]
            /\ wSteps' = Append(wSteps, "autofill")
            /\ wpc' = "autofill"
            /\ UNCHANGED wEnds
  /\ UNCHANGED <<wPayload, wHanded, wCalls, wSignArgs, wNexts>>

\* faulty variant of Extend: the arguments swapped, so the defaults win
ExtendFirstWins(a, b) ==
  [k \in DOMAIN a \cup DOMAIN b |-> IF k \in DOMAIN a THEN a[k] ELSE b[k]]

\* extend(a, b) of xtend: a new object with the own properties of a, then of b
Extend(a, b) ==
  [k \in DOMAIN a \cup DOMAIN b |-> IF k \in DOMAIN b THEN b[k] ELSE a[k]]

\* the default gas limit of fillInTxExtras
DefaultGas == "0x9000"

\* var fullTxData = extend({gasPrice: ..., nonce: ..., gas: '0x9000'}, txData)
FullTxData(result, txData) ==
  Extend([gasPrice |-> result.gasPrice.result, nonce |-> result.nonce.result,
          gas |-> DefaultGas],
         txData)

\* async.parallel: the final callback runs when every task has called back
AllTasksOk(par) == par.gasPrice = "ok" /\ par.nonce = "ok"

\* faulty variant of AutofillTaskDone: every failing task calls the final
\* callback, also after it has been called
AutofillTaskDoneEveryError(task, err, reply) ==
  /\ WalletFrame
  /\ wPar[task] = "pending"
  /\ wOutcomes' = Append(wOutcomes, [step |-> "autofill", task |-> task, err |-> err,
                                     val |-> reply])
  /\ IF err # Null
       THEN /\ wPar' = [wPar EXCEPT ![task] = "err", !.called = TRUE]
            /\ End(err, Undefined)
            /\ UNCHANGED <<wCalls, wSignArgs, wSteps>>
       ELSE LET par == [wPar EXCEPT ![task] = "ok", !.results[task] = [result |-> reply]]
            IN  IF AllTasksOk(par) /\ ~ par.called
                  THEN /\ wPar' = [par EXCEPT !.called = TRUE]
                       /\ wCalls' = [wCalls EXCEPT !.signTransaction = @ + 1]
                       /\ wSignArgs' = Append(wSignArgs,
                                              FullTxData(par.results, wPayload.params[1]))
                       /\ wSteps' = Append(wSteps, "sign")
                       /\ wpc' = "sign"
                       /\ UNCHANGED wEnds
                  ELSE /\ wPar' = par
                       /\ UNCHANGED <<wCalls, wSignArgs, wSteps, wEnds, wpc>>
  /\ UNCHANGED <<wPayload, wHanded, wEmitted, wNexts>>

\* a task of async.parallel calls back (the reply of the upstream provider to
\* eth_gasPrice or eth_getTransactionCount).  The first error calls the final
\* callback with it; the last success calls it with the results; the final
\* callback is called once.  On success fillInTxExtras hands the merged
\* transaction to its callback, which calls signTransaction.
AutofillTaskDone(task, err, reply) ==
  /\ WalletFrame
  /\ wPar[task] = "pending"
  /\ wOutcomes' = Append(wOutcomes, [step |-> "autofill", task |-> task, err |-> err,
                                     val |-> reply])
  /\ IF err # Null
       THEN /\ wPar' = [wPar EXCEPT ![task] = "err", !.called = TRUE]
            /\ IF ~ wPar.called
                 THEN End(err, Undefined)
                 ELSE UNCHANGED <<wEnds, wpc>>
            /\ UNCHANGED <<wCalls, wSignArgs, wSteps>>
       ELSE LET par == [wPar EXCEPT ![task] = "ok", !.results[task] = [result |-> reply]]
            IN  IF AllTasksOk(par) /\ ~ par.called
                  THEN /\ wPar' = [par EXCEPT !.called = TRUE]
                       /\ wCalls' = [wCalls EXCEPT !.signTransaction = @ + 1]
                       /\ wSignArgs' = Append(wSignArgs,
                                              FullTxData(par.results, wPayload.params[1]))
                       /\ wSteps' = Append(wSteps, "sign")
                       /\ wpc' = "sign"
                       /\ UNCHANGED wEnds
                  ELSE /\ wPar' = par
                       /\ UNCHANGED <<wCalls, wSignArgs, wSteps, wEnds, wpc>>
  /\ UNCHANGED <<wPayload, wHanded, wEmitted, wNexts>>

\* faulty variant of AfterSign: goes on to submit whatever err is
AfterSignIgnoreError(err) == "submit"

\* the signing callback: if (err) return end(err)
AfterSign(err) == IF err # Null THEN "error" ELSE "submit"

\* the callback of signTransaction; on success submitTx emits the raw transaction
SignReturn(err, rawTx) ==
  /\ WalletFrame
  /\ wpc = "sign"
  /\ wOutcomes' = Append(wOutcomes, [step |-> "sign", task |-> "sign", err |-> err,
                                     val |-> rawTx])
  /\ IF AfterSign(err) = "error"
       THEN /\ End(err, Undefined)
            /\ UNCHANGED <<wEmitted, wSteps>>
       ELSE /\ wEmitted' = Append(wEmitted, [method |-> "eth_sendRawTransaction",
                                             params |-> <<rawTx>>])
            /\ wSteps' = Append(wSteps, "submit")
            /\ wpc' = "submit"
            /\ UNCHANGED wEnds
  /\ UNCHANGED <<wPayload, wHanded, wCalls, wSignArgs, wPar, wNexts>>

\* the callback of submitTx's emitPayload: if (err) return cb(err);
\* cb(null, result.result), cb being end
SubmitReturn(err, result) ==
  /\ WalletFrame
  /\ wpc = "submit"
  /\ wOutcomes' = Append(wOutcomes, [step |-> "submit", task |-> "submit", err |-> err,
                                     val |-> IF err = Null THEN result.result ELSE Undefined])
  /\ IF err # Null
       THEN End(err, Undefined)
       ELSE End(Null, result.result)
  /\ UNCHANGED <<wPayload, wHanded, wCalls, wSignArgs, wEmitted, wPar, wNexts, wSteps>>

NextWallet ==
  \/ \E p \in WalletPayloads : HandleRequest(p)
  \/ \E accounts \in AccountLists : GetAccountsReturn(Null, accounts)
  \/ GetAccountsReturn("getAccountsError", <<>>)
  \/ \E didApprove \in BOOLEAN : ApproveReturn(Null, didApprove)
  \/ ApproveReturn("approveError", FALSE)
  \/ \E reply \in GasPriceReplies : AutofillTaskDone("gasPrice", Null, reply)
  \/ AutofillTaskDone("gasPrice", "gasPriceError", Undefined)
  \/ \E reply \in NonceReplies : AutofillTaskDone("nonce", Null, reply)
  \/ AutofillTaskDone("nonce", "nonceError", Undefined)
  \/ SignReturn(Null, RawTx)
  \/ SignReturn("signError", Undefined)
  \/ SubmitReturn(Null, [result |-> TxHash])
  \/ SubmitReturn("submitError", Undefined)

\* ---------------------------------------------------------------- wallet claims

\* the order of the send-transaction pipeline
PipelineOrder == <<"approve", "autofill", "sign", "submit">>

IsPrefix(a, b) == Len(a) <= Len(b) /\ a = SubSeq(b, 1, Len(a))

\* the error a recorded answer stands for: the collaborator's error, the denial
\* for an approval answered false, Null for a success
StepError(o) ==
  IF o.err # Null THEN o.err
  ELSE IF o.step = "approve" /\ o.val = "false" THEN DeniedError
  ELSE Null

\* the answers recorded so far that are failures
Failures == { i \in 1..Len(wOutcomes) : StepError(wOutcomes[i]) # Null }

FirstFailure == wOutcomes[CHOOSE i \in Failures : \A j \in Failures : i <= j]

\* every task of the step has answered, none with a failure
StepSucceeded(step) ==
  /\ \A i \in 1..Len(wOutcomes) :
       wOutcomes[i].step = step => StepError(wOutcomes[i]) = Null
  /\ \A task \in (IF step = "autofill" THEN {"gasPrice", "nonce"} ELSE {step}) :
       \E i \in 1..Len(wOutcomes) : wOutcomes[i].task = task

EmittedMethods == { wEmitted[i].method : i \in 1..Len(wEmitted) }

\* the approval collaborator answered false
ApprovalAnsweredFalse ==
  \E i \in 1..Len(wOutcomes) :
    /\ wOutcomes[i].step = "approve"
    /\ wOutcomes[i].err = Null
    /\ wOutcomes[i].val = "false"

\* C8: when the approval collaborator answers false, the request ends with the
\* denial error and nothing of autofill, signing or submission happens: no
\* payload is emitted, no fetch is pending, signTransaction is not called.
C8_DenialHaltsBeforeAutofill ==
  ApprovalAnsweredFalse =>
    /\ wpc = "ended"
    /\ wEnds = <<[err |-> DeniedError, result |-> Undefined]>>
    /\ wSteps = <<"approve">>
    /\ wEmitted = <<>>
    /\ wPar = ParIdle
    /\ wCalls.signTransaction = 0

\* C8 witness: a send-transaction request whose approval was answered false
C8_Witness ==
  /\ ApprovalAnsweredFalse
  /\ wHanded.method = "eth_sendTransaction"
  /\ Len(wEnds) = 1

\* C9: the steps start in the order approve, autofill, sign, submit, each after
\* the one before it succeeded; end is called at most once; after the first
\* failure the request has ended once with that failure's error, the failed step
\* is the last one started, and no raw transaction was emitted unless the
\* failure is the submission's own.
C9_PipelineOrderAndHalt ==
  /\ IsPrefix(wSteps, PipelineOrder)
  /\ \A n \in 2..Len(wSteps) : StepSucceeded(wSteps[n - 1])
  /\ Len(wEnds) <= 1
  /\ Failures # {} =>
       /\ wpc = "ended"
       /\ wEnds = <<[err |-> StepError(FirstFailure), result |-> Undefined]>>
       /\ wSteps[Len(wSteps)] = FirstFailure.step
       /\ FirstFailure.step # "submit" => "eth_sendRawTransaction" \notin EmittedMethods
       /\ FirstFailure.step \in {"approve", "autofill"} => wCalls.signTransaction = 0

\* C9 witness: one autofill fetch failed, the request ended, and the other fetch
\* completed afterwards
C9_Witness ==
  /\ Len(wOutcomes) = 3
  /\ wOutcomes[2].step = "autofill" /\ wOutcomes[2].err # Null
  /\ wOutcomes[3].step = "autofill" /\ wOutcomes[3].err = Null
  /\ Len(wEnds) = 1

\* the value the upstream provider answered to an autofill fetch
Fetched(task) ==
  wOutcomes[CHOOSE i \in 1..Len(wOutcomes) : wOutcomes[i].task = task].val

\* what autofill supplies for a field the caller left out
Autofilled(f) ==
  CASE f = "nonce" -> Fetched("nonce")
    [] f = "gasPrice" -> Fetched("gasPrice")
    [] f = "gas" -> "0x9000"

\* C10: the transaction handed to signTransaction has every caller field
\* unchanged, and each of nonce, gasPrice and gas the caller left out filled
\* with the fetched pending count, the fetched fee price and 0x9000.
C10_AutofillMerge ==
  \A i \in 1..Len(wSignArgs) :
    LET full == wSignArgs[i]
        tx == wHanded.params[1]
    IN  /\ DOMAIN full = DOMAIN tx \cup AutofillFields
        /\ \A f \in DOMAIN tx : full[f] = tx[f]
        /\ \A f \in AutofillFields \ DOMAIN tx : full[f] = Autofilled(f)

\* C10 witness: the caller supplied gasPrice but neither nonce nor gas, and the
\* transaction has reached signing
C10_Witness ==
  /\ Len(wSignArgs) = 1
  /\ DOMAIN wHanded.params[1] = {"from", "to", "value", "gasPrice"}
  /\ wSignArgs[1]["gasPrice"] = CallerValue["gasPrice"]
  /\ wSignArgs[1]["nonce"] \in NonceReplies
  /\ wSignArgs[1]["gas"] = "0x9000"

\* the answers of the upstream provider to the two autofill fetches, and those
\* that are failures
AutofillAnswers == { i \in 1..Len(wOutcomes) : wOutcomes[i].step = "autofill" }
AutofillFailures == { i \in AutofillAnswers : wOutcomes[i].err # Null }
FirstAutofillFailure ==
  wOutcomes[CHOOSE i \in AutofillFailures : \A j \in AutofillFailures : i <= j]

\* C16: signTransaction is invoked, once, exactly when both autofill fetches
\* have completed successfully, in whichever order they completed; once one of
\* them has failed the request has ended exactly once with the error of the
\* first failure and without a result, signTransaction was not invoked, and the
\* completion of the other fetch, successful or not, changes none of this.
C16_AutofillJoinFailFast ==
  /\ wCalls.signTransaction <= 1
  /\ wCalls.signTransaction = 1
       <=> \A task \in {"gasPrice", "nonce"} :
             \E i \in AutofillAnswers :
               wOutcomes[i].task = task /\ wOutcomes[i].err = Null
  /\ AutofillFailures # {} =>
       /\ wCalls.signTransaction = 0
       /\ wSignArgs = <<>>
       /\ wpc = "ended"
       /\ wEnds = <<[err |-> FirstAutofillFailure.err, result |-> Undefined]>>

\* the pending-nonce fetch, started second, failed first and ended the request;
\* the fee-price fetch completed afterwards with a value
C16_Witness ==
  /\ Len(wOutcomes) = 3
  /\ wOutcomes[2].task = "nonce" /\ wOutcomes[2].err = "nonceError"
  /\ wOutcomes[3].task = "gasPrice" /\ wOutcomes[3].val \in GasPriceReplies
  /\ wPar.gasPrice = "ok" /\ wPar.nonce = "err" /\ wPar.called
  /\ wEnds = <<[err |-> "nonceError", result |-> Undefined]>>
  /\ wCalls.signTransaction = 0

\* =========================================================================
\* The gate (util/stoplight.js, not among the sources: modelled from the
\* specification's ConcurrencyGate) and VmSubprovider (vm.js:15-121)
\* =========================================================================

\* the gate with the continuations it holds
Gate == [isLocked |-> isLocked, waiting |-> waiting, runnable |-> runnable]

SetGate(g) ==
  /\ isLocked' = g.isLocked
  /\ waiting' = g.waiting
  /\ runnable' = g.runnable

\* close(): idempotent
Stop(g) == [g EXCEPT !.isLocked = TRUE]

\* faulty variant of Go: releases only the continuation at the head of the queue
GoReleasesHead(g) ==
  IF g.waiting = <<>>
    THEN [g EXCEPT !.isLocked = FALSE]
    ELSE [isLocked |-> FALSE, waiting |-> Tail(g.waiting),
          runnable |-> Append(g.runnable, Head(g.waiting))]

\* open(): idempotent; releases all queued continuations in FIFO order
Go(g) == [isLocked |-> FALSE, waiting |-> <<>>, runnable |-> g.runnable \o g.waiting]

\* await(continuation): if OPEN schedules it, if CLOSED enqueues it
Await(g, fn) ==
  IF g.isLocked
    THEN [g EXCEPT !.waiting = Append(@, fn)]
    ELSE [g EXCEPT !.runnable = Append(@, fn)]

\* self.methods = ['eth_call', 'eth_estimateGas']
VmOwnMethods == {"eth_call", "eth_estimateGas"}

\* the transaction object of a request
VmTx == [from |-> "0xa1", to |-> "0xa2", value |-> "0x0", data |-> ""]

\* payloads handed to sendAsync: the two methods of the subprovider and one that
\* is not its own, each with a transaction object or with no parameter at all
VmPayloads(id) ==
  { [id |-> id, jsonrpc |-> "2.0", method |-> m, params |-> ps] :
      m \in VmOwnMethods \cup {"eth_sendTransaction"}, ps \in {<<VmTx>>, <<>>} }

\* the number of the root provider's current block at construction
FirstBlockNumber == 16

\* self.rootProvider.currentBlock: the block data of block number n
BlockData(n) == [number |-> n, gasLimit |-> "0x2fefd8"]

\* obj.f reads as undefined when obj has no property f
HasProp(obj, f) == f \in DOMAIN obj

\* const NOT_ENOUGH_FUNDS, WRONG_NONCE, VM_INTERNAL_ERRORS
NOT_ENOUGH_FUNDS == "sender doesn't have enough funds to send tx."
WRONG_NONCE == "the tx doesn't have the correct nonce. account has nonce of:"
VM_INTERNAL_ERRORS == <<NOT_ENOUGH_FUNDS, WRONG_NONCE>>

Min(a, b) == IF a <= b THEN a ELSE b

\* message.slice(0, n)
Slice0(message, n) == SubSeq(message, 1, Min(n, Len(message)))

\* faulty variant of isNormalVmError: every engine error counts as a domain error
isNormalVmErrorAlways(message) == TRUE

\* function isNormalVmError(message)
isNormalVmError(message) ==
  LET Matches(errorPattern) == Slice0(message, Len(errorPattern)) = errorPattern
      matchedErrors == SelectSeq(VM_INTERNAL_ERRORS, Matches)
  IN  Len(matchedErrors) = 1

\* the results argument of a callback that was given none
NoResults == [undefined |-> TRUE]

\* the ways vm.runTx calls back: err (its message) or results
EngineOutcomes ==
  { [err |-> Null, results |-> [vm |-> [returnValue |-> <<0, 42>>], gasUsed |-> 21000]],
    [err |-> Null, results |-> [vm |-> [exception |-> 1], gasUsed |-> 0]],
    [err |-> NOT_ENOUGH_FUNDS \o " The upfront cost is: 90000", results |-> NoResults],
    [err |-> WRONG_NONCE \o " 3 tx has nonce of: 0", results |-> NoResults],
    [err |-> "sender", results |-> NoResults],
    [err |-> "Invalid JSON RPC response", results |-> NoResults] }

HexDigits == "0123456789abcdef"
HexDigit(d) == SubSeq(HexDigits, d + 1, d + 1)

\* faulty variant of BufferToHex: the bytes are dropped
BufferToHexEmpty(buf) == ""

\* buffer.toString('hex'): two digits per byte
RECURSIVE BufferToHex(_)
BufferToHex(buf) ==
  IF buf = <<>> THEN ""
  ELSE HexDigit(Head(buf) \div 16) \o HexDigit(Head(buf) % 16) \o BufferToHex(Tail(buf))

\* bn.toString('hex'): no leading zeros
RECURSIVE NumToHex(_)
NumToHex(n) == IF n < 16 THEN HexDigit(n) ELSE NumToHex(n \div 16) \o HexDigit(n % 16)

\* ethUtil.addHexPrefix
addHexPrefix(str) == IF Slice0(str, 2) = "0x" THEN str ELSE "0x" \o str

\* ethUtil.stripHexPrefix
stripHexPrefix(str) == IF Slice0(str, 2) = "0x" THEN SubSeq(str, 3, Len(str)) ELSE str

\* the value of one hex digit
HexValue(ch) == CHOOSE d \in 0..15 : HexDigit(d) = ch

\* new Buffer(hex, 'hex'): one byte per two digits
RECURSIVE HexToBuffer(_)
HexToBuffer(hex) ==
  IF Len(hex) < 2 THEN <<>>
  ELSE <<16 * HexValue(SubSeq(hex, 1, 1)) + HexValue(SubSeq(hex, 2, 2))>>
         \o HexToBuffer(SubSeq(hex, 3, Len(hex)))

\* function blockFromBlockData(blockData): the header fields copied
blockFromBlockData(blockData) ==
  [number |-> blockData.number, gasLimit |-> blockData.gasLimit]

\* var blockNumber = ethUtil.addHexPrefix(blockData.number.toString('hex'))
BlockNumber(blockData) == addHexPrefix(NumToHex(blockData.number))

\* the addresses whose state the engine looks up: the callee of the transaction
ExecAddresses == {VmTx.to}
\* the storage slots the engine reads and writes, as key.toString('hex')
Slots == {"00"}

\* self.cache = {} / a FakeMerklePatriciaTree without entries
EmptyCache == [a \in ExecAddresses |-> Undefined]
NoSlots == [k \in {} |-> <<>>]

\* what the upstream provider answers to eth_getCode and eth_getStorageAt, and
\* the error of a fetch that failed
UpstreamCode == "0x6000"
UpstreamStorage == "0x2a"
FetchError == "Invalid JSON RPC response"

\* what the engine of request r writes: a code and a storage word of its own
EngineCode(r) == "0x60" \o NumToHex(r)
EngineWord(r) == <<r>>

\* the payloads of _fetchAccountStorage, _fetchAccountBalance,
\* _fetchAccountNonce and _fetchAccountCode
FetchAccountStoragePayload(address, key, blockNumber) ==
  [method |-> "eth_getStorageAt", params |-> <<address, key, blockNumber>>]
FetchAccountBalancePayload(address, blockNumber) ==
  [method |-> "eth_getBalance", params |-> <<address, blockNumber>>]
FetchAccountNoncePayload(address, blockNumber) ==
  [method |-> "eth_getTransactionCount", params |-> <<address, blockNumber>>]
FetchAccountCodePayload(address, blockNumber) ==
  [method |-> "eth_getCode", params |-> <<address, blockNumber>>]

\* _fetchAccount: the tasks async.parallel is given, in the order it starts them
FetchAccountTasks(addressHex, blockNumber) ==
  <<FetchAccountNoncePayload(addressHex, blockNumber),
    FetchAccountBalancePayload(addressHex, blockNumber)>>

\* faulty variant of NewCodeStore: one store kept for all runs
SharedCodeStore(stores) == 1

\* var codeStore = new FallbackAsyncStore(...): an object of its own
NewCodeStore(stores) == Len(stores) + 1

\* faulty variant of LookupBlockNumber: the current block is read at the lookup
LookupBlockNumberCurrent(r) == BlockNumber(currentBlock)

\* the blockNumber the lookups of request r are bound to (bind(self,
\* blockNumber) and the closure of codeStore's fetch function)
LookupBlockNumber(r) == vBlockNumber[r]

\* payload.params[0] is undefined: reading txParams.to throws a TypeError
SetupThrows(payload) == payload.params = <<>>

\* new Transaction({...}): gasLimit: txParams.gas || block.gasLimit
BuildTx(txParams, block) ==
  [to |-> txParams.to, from |-> txParams.from, value |-> txParams.value,
   data |-> txParams.data,
   gasLimit |-> IF HasProp(txParams, "gas") THEN txParams.gas ELSE block.gasLimit]

\* the engine callback of runVm after the gate is released: what runVm's cb gets
RunVmResult(err, results) ==
  IF err # Null
    THEN IF isNormalVmError(err)
           THEN [err |-> Null, results |-> [error |-> err]]
           ELSE [err |-> err, results |-> NoResults]
    ELSE [err |-> Null, results |-> results]

\* the callback sendAsync gives to runVm: the call of cb it makes ("cb"), or the
\* TypeError it throws ("throw"), or nothing at all ("none")
SendAsyncCallback(payload, err, results) ==
  IF err # Null THEN [kind |-> "cb", err |-> err, res |-> Undefined]
  ELSE CASE payload.method = "eth_call" ->
              LET returnValue ==
                    IF HasProp(results, "error") THEN "0x"
                    ELSE IF HasProp(results.vm, "returnValue")
                           THEN addHexPrefix(BufferToHex(results.vm.returnValue))
                           ELSE Null
              IN  [kind |-> "cb", err |-> Null,
                   res |-> [id |-> payload.id, jsonrpc |-> payload.jsonrpc,
                            result |-> returnValue]]
         [] payload.method = "eth_estimateGas" ->
              IF HasProp(results, "gasUsed")
                THEN [kind |-> "cb", err |-> Null,
                      res |-> [id |-> payload.id, jsonrpc |-> payload.jsonrpc,
                               result |-> addHexPrefix(NumToHex(results.gasUsed))]]
                ELSE [kind |-> "throw", err |-> "TypeError", res |-> Undefined]
         [] OTHER -> [kind |-> "none", err |-> Null, res |-> Undefined]

NoOutcome == [err |-> Undefined, results |-> NoResults]

\* function VmSubprovider(opts): self._ready = new Stoplight(); self._ready.go()
InitVm ==
  /\ LET g == Go([isLocked |-> TRUE, waiting |-> <<>>, runnable |-> <<>>])
     IN  isLocked = g.isLocked /\ waiting = g.waiting /\ runnable = g.runnable
  /\ vpc = <<>>
  /\ vPayload = <<>>
  /\ vEngineArg = <<>>
  /\ vResp = <<>>
  /\ vStops = <<>>
  /\ vGos = <<>>
  /\ vOutcome = <<>>
  /\ vQueuedAtGo = <<>>
  /\ currentBlock = BlockData(FirstBlockNumber)
  /\ vBlockNumber = <<>>
  /\ codeStores = <<>>
  /\ vCodeStore = <<>>
  /\ tries = <<>>
  /\ vTrie = <<>>
  /\ vFetches = <<>>
  /\ vFetchErr = <<>>

\* VmSubprovider.prototype.sendAsync, runVm up to self._ready.await
SendAsync(p) ==
  /\ VmFrame
  /\ p.id = Len(vpc) + 1
  /\ SetGate(Await(Gate, p.id))
  /\ vpc' = Append(vpc, "pending")
  /\ vPayload' = Append(vPayload, p)
  /\ vEngineArg' = Append(vEngineArg, <<>>)
  /\ vResp' = Append(vResp, <<>>)
  /\ vStops' = Append(vStops, 0)
  /\ vGos' = Append(vGos, 0)
  /\ vOutcome' = Append(vOutcome, NoOutcome)
  /\ vBlockNumber' = Append(vBlockNumber, Undefined)
  /\ vCodeStore' = Append(vCodeStore, 0)
  /\ vTrie' = Append(vTrie, 0)
  /\ vFetches' = Append(vFetches, {})
  /\ vFetchErr' = Append(vFetchErr, Null)
  /\ UNCHANGED <<vQueuedAtGo, currentBlock, codeStores, tries>>

\* the continuation runVm gave to await: stop, read the current block, create
\* the vm and its code store bound to the block number, build the tx, vm.runTx
RunContinuation ==
  /\ VmFrame
  /\ runnable # <<>>
  /\ LET r == Head(runnable)
         blockData == currentBlock
         block == blockFromBlockData(blockData)
     IN  /\ SetGate(Stop([Gate EXCEPT !.runnable = Tail(runnable)]))
         /\ vStops' = [vStops EXCEPT ![r] = @ + 1]
         /\ vBlockNumber' = [vBlockNumber EXCEPT ![r] = BlockNumber(blockData)]
         /\ codeStores' = Append(codeStores, EmptyCache)
         /\ vCodeStore' = [vCodeStore EXCEPT ![r] = NewCodeStore(codeStores)]
         /\ IF SetupThrows(vPayload[r])
              THEN /\ vpc' = [vpc EXCEPT ![r] = "thrown"]
                   /\ UNCHANGED vEngineArg
              ELSE /\ vpc' = [vpc EXCEPT ![r] = "engine"]
                   /\ vEngineArg' = [vEngineArg EXCEPT ![r] = Append(@,
                        [tx |-> BuildTx(vPayload[r].params[1], block),
                         block |-> block])]
  /\ UNCHANGED <<vPayload, vResp, vGos, vOutcome, vQueuedAtGo, currentBlock, tries,
                 vTrie, vFetches, vFetchErr>>

\* the callback of vm.runTx: go, then runVm's cb, which is sendAsync's callback
EngineDone(r, o) ==
  /\ VmFrame
  /\ r \in 1..Len(vpc)
  /\ vpc[r] = "engine"
  /\ SetGate(Go(Gate))
  /\ vGos' = [vGos EXCEPT ![r] = @ + 1]
  /\ vOutcome' = [vOutcome EXCEPT ![r] = o]
  /\ LET rv == RunVmResult(o.err, o.results)
         c == SendAsyncCallback(vPayload[r], rv.err, rv.results)
     IN  /\ vResp' = [vResp EXCEPT ![r] =
                        IF c.kind = "cb" THEN Append(@, [err |-> c.err, res |-> c.res])
                        ELSE @]
         /\ vpc' = [vpc EXCEPT ![r] = IF c.kind = "throw" THEN "thrown" ELSE "done"]
  /\ vQueuedAtGo' = waiting
  /\ UNCHANGED <<vPayload, vEngineArg, vStops, currentBlock, vBlockNumber, codeStores,
                 vCodeStore, tries, vTrie, vFetches, vFetchErr>>

NextVm ==
  \/ \E id \in 1..NumReqs : \E p \in VmPayloads(id) : SendAsync(p)
  \/ RunContinuation
  \/ \E r \in 1..NumReqs, o \in EngineOutcomes : EngineDone(r, o)

\* -------------------------------------------------- the engine's state lookups
\* The engine (ethereumjs-vm) runs one transaction step by step: it asks for one
\* piece of state at a time and waits for the answer, and it gives up the run
\* with the error of a lookup that failed.

\* what the lookup actions leave alone
LookupFrame ==
  UNCHANGED <<storeVars, walletVars, accountVars, isLocked, waiting, runnable, vpc, vPayload,
              vEngineArg, vResp, vStops, vGos, vOutcome, vQueuedAtGo, vBlockNumber,
              vCodeStore>>

\* the engine of request r is running and waits for no lookup
EngineAsks(r) ==
  /\ r \in 1..Len(vpc)
  /\ vpc[r] = "engine"
  /\ vFetches[r] = {}
  /\ vFetchErr[r] = Null

\* the root provider's block tracker sets rootProvider.currentBlock
NewBlock ==
  /\ currentBlock.number < FirstBlockNumber + MaxBlocks
  /\ currentBlock' = BlockData(currentBlock.number + 1)
  /\ LookupFrame
  /\ UNCHANGED <<codeStores, tries, vTrie, vFetches, vFetchErr>>

\* vm.stateManager.getContractCode = codeStore.get: FallbackAsyncStore.get, with
\* fetch = _fetchAccountCode(address, blockNumber, cb)
GetContractCode(r, address) ==
  /\ EngineAsks(r)
  /\ IF CacheHit(codeStores[vCodeStore[r]], address)
       THEN UNCHANGED vFetches
       ELSE vFetches' = [vFetches EXCEPT ![r] =
                           {FetchAccountCodePayload(address, LookupBlockNumber(r))}]
  /\ LookupFrame
  /\ UNCHANGED <<currentBlock, codeStores, tries, vTrie, vFetchErr>>

\* vm.stateManager.setContractCode = codeStore.set: FallbackAsyncStore.set
SetContractCode(r, address, code) ==
  /\ EngineAsks(r)
  /\ codeStores' = [codeStores EXCEPT ![vCodeStore[r]] = CachePut(@, address, code)]
  /\ LookupFrame
  /\ UNCHANGED <<currentBlock, tries, vTrie, vFetches, vFetchErr>>

\* the callback of _fetchAccountCode, which is the fetch callback of
\* FallbackAsyncStore.get: if (err) return cb(err); self.cache[address] = value
CodeFetchReturn(r, p, err, result) ==
  /\ r \in 1..Len(vpc)
  /\ p \in vFetches[r]
  /\ p.method = "eth_getCode"
  /\ vFetches' = [vFetches EXCEPT ![r] = @ \ {p}]
  /\ IF err # Null
       THEN /\ vFetchErr' = [vFetchErr EXCEPT ![r] = err]
            /\ UNCHANGED codeStores
       ELSE /\ codeStores' = [codeStores EXCEPT ![vCodeStore[r]] =
                                CachePut(@, p.params[1], result)]
            /\ UNCHANGED vFetchErr
  /\ LookupFrame
  /\ UNCHANGED <<currentBlock, tries, vTrie>>

\* vm.stateManager.cache._lookupAccount = _fetchAccount.bind(self, blockNumber):
\* the two tasks async.parallel starts (the join is followed in SpecAccount)
LookupAccount(r, address) ==
  /\ EngineAsks(r)
  /\ LET tasks == FetchAccountTasks(address, LookupBlockNumber(r))
     IN  vFetches' = [vFetches EXCEPT ![r] = { tasks[i] : i \in 1..Len(tasks) }]
  /\ LookupFrame
  /\ UNCHANGED <<currentBlock, codeStores, tries, vTrie, vFetchErr>>

\* the callback of _fetchAccountNonce or _fetchAccountBalance, a task of
\* async.parallel: the first error is handed on, once
AccountFetchReturn(r, p, err) ==
  /\ r \in 1..Len(vpc)
  /\ p \in vFetches[r]
  /\ p.method \in {"eth_getTransactionCount", "eth_getBalance"}
  /\ vFetches' = [vFetches EXCEPT ![r] = @ \ {p}]
  /\ vFetchErr' = [vFetchErr EXCEPT ![r] = IF err # Null /\ @ = Null THEN err ELSE @]
  /\ LookupFrame
  /\ UNCHANGED <<currentBlock, codeStores, tries, vTrie>>

\* new FallbackStorageTrie({ fetchStorage }), fetchStorage bound to address and
\* blockNumber
NewTrie(address, blockNumber) ==
  [address |-> address, blockNumber |-> blockNumber, slots |-> NoSlots]

\* vm.stateManager._lookupStorageTrie = _createAccountStorageTrie.bind(self,
\* blockNumber); the engine keeps the trie of an address for the run
LookupStorageTrie(r, address) ==
  /\ EngineAsks(r)
  /\ vTrie[r] = 0
  /\ tries' = Append(tries, NewTrie(address, LookupBlockNumber(r)))
  /\ vTrie' = [vTrie EXCEPT ![r] = Len(tries) + 1]
  /\ LookupFrame
  /\ UNCHANGED <<currentBlock, codeStores, vFetches, vFetchErr>>

\* FakeMerklePatriciaTree.prototype.get finds a local value for the key
TrieHas(trie, key) == key \in DOMAIN trie.slots

\* FakeMerklePatriciaTree.prototype.put
TrieWith(trie, key, value) ==
  [trie EXCEPT !.slots = [k \in DOMAIN @ \cup {key} |-> IF k = key THEN value ELSE @[k]]]

\* FallbackStorageTrie.prototype.get: if (value) return cb(null, value), else
\* self._fetchStorage(keyHex, ...)
TrieGet(r, key) ==
  /\ EngineAsks(r)
  /\ vTrie[r] # 0
  /\ LET trie == tries[vTrie[r]]
     IN  IF TrieHas(trie, key)
           THEN UNCHANGED vFetches
           ELSE vFetches' = [vFetches EXCEPT ![r] =
                  {FetchAccountStoragePayload(trie.address, key, trie.blockNumber)}]
  /\ LookupFrame
  /\ UNCHANGED <<currentBlock, codeStores, tries, vTrie, vFetchErr>>

\* FakeMerklePatriciaTree.prototype.put, which FallbackStorageTrie inherits
TriePut(r, key, value) ==
  /\ EngineAsks(r)
  /\ vTrie[r] # 0
  /\ tries' = [tries EXCEPT ![vTrie[r]] = TrieWith(@, key, value)]
  /\ LookupFrame
  /\ UNCHANGED <<currentBlock, codeStores, vTrie, vFetches, vFetchErr>>

\* the trie after its fetch was answered: var value = new Buffer(...);
\* cb(null, value) -- the trie itself is not written
AfterStorageFetch(trie, key, value) == trie

\* the callback of _fetchAccountStorage, which is the fetch callback of
\* FallbackStorageTrie.get
StorageFetchReturn(r, p, err, rawValue) ==
  /\ r \in 1..Len(vpc)
  /\ p \in vFetches[r]
  /\ p.method = "eth_getStorageAt"
  /\ vFetches' = [vFetches EXCEPT ![r] = @ \ {p}]
  /\ IF err # Null
       THEN /\ vFetchErr' = [vFetchErr EXCEPT ![r] = err]
            /\ UNCHANGED tries
       ELSE /\ tries' = [tries EXCEPT ![vTrie[r]] =
                AfterStorageFetch(@, p.params[2], HexToBuffer(stripHexPrefix(rawValue)))]
            /\ UNCHANGED vFetchErr
  /\ LookupFrame
  /\ UNCHANGED <<currentBlock, codeStores, vTrie>>

\* the requests whose lookups are followed: simulate-calls with a transaction
ExecPayloads(id) == { p \in VmPayloads(id) : p.method = "eth_call" /\ p.params # <<>> }

\* how the engine run of request r can end: with the error of the lookup that
\* failed, or, when no lookup is outstanding, in any of its own ways
ExecOutcomes(r) ==
  IF r \notin 1..Len(vpc) THEN {}
  ELSE IF vFetchErr[r] # Null
    THEN { [err |-> vFetchErr[r], results |-> NoResults] }
  ELSE IF vFetches[r] = {}
    THEN EngineOutcomes
  ELSE {}

NextExec ==
  \/ \E id \in 1..NumExecs : \E p \in ExecPayloads(id) : SendAsync(p)
  \/ RunContinuation
  \/ NewBlock
  \/ \E r \in 1..NumExecs, a \in ExecAddresses : GetContractCode(r, a)
  \/ \E r \in 1..NumExecs, a \in ExecAddresses : SetContractCode(r, a, EngineCode(r))
  \/ \E r \in DOMAIN vFetches : \E p \in vFetches[r] :
       \/ CodeFetchReturn(r, p, Null, UpstreamCode)
       \/ CodeFetchReturn(r, p, FetchError, Undefined)
  \/ \E r \in 1..NumExecs, a \in ExecAddresses : LookupAccount(r, a)
  \/ \E r \in DOMAIN vFetches : \E p \in vFetches[r], err \in {Null, FetchError} :
       AccountFetchReturn(r, p, err)
  \/ \E r \in 1..NumExecs, a \in ExecAddresses : LookupStorageTrie(r, a)
  \/ \E r \in 1..NumExecs, k \in Slots : TrieGet(r, k)
  \/ \E r \in 1..NumExecs, k \in Slots : TriePut(r, k, EngineWord(r))
  \/ \E r \in DOMAIN vFetches : \E p \in vFetches[r] :
       \/ StorageFetchReturn(r, p, Null, UpstreamStorage)
       \/ StorageFetchReturn(r, p, FetchError, Undefined)
  \/ \E r \in 1..NumExecs : \E o \in ExecOutcomes(r) : EngineDone(r, o)

\* ---------------------------------------------------------- _fetchAccount
\* One call of VmSubprovider.prototype._fetchAccount (vm.js:135-151), the
\* account lookup the engine's cache is given.

\* the addresses looked up (Buffers) and the block numbers they are looked up at
AccountAddresses == {<<161>>, <<162>>}
AccountBlockNumbers == {"0x10", "0x11"}

\* the accounts the upstream provider may hold: nonce, balance and code
UpstreamAccounts ==
  [nonce : {"0x0", "0x1"}, balance : {"0x0", "0x5"}, code : {"0x", "0x6000"}]

NoAccount == [undefined |-> TRUE]
NoArgs == [undefined |-> TRUE]

AccountParIdle ==
  [nonce |-> "idle", balance |-> "idle",
   results |-> [nonce |-> Undefined, balance |-> Undefined], called |-> FALSE]

InitAccount ==
  /\ aArgs = NoArgs
  /\ aUpstream = NoAccount
  /\ aEmitted = <<>>
  /\ aPar = AccountParIdle
  /\ aCallbacks = <<>>

\* _fetchAccount up to the start of the tasks of async.parallel
FetchAccount(blockNumber, address, upstream) ==
  /\ AccountFrame
  /\ aArgs = NoArgs
  /\ aArgs' = [blockNumber |-> blockNumber, address |-> address]
  /\ aUpstream' = upstream
  /\ LET addressHex == addHexPrefix(BufferToHex(address))
     IN  aEmitted' = aEmitted \o FetchAccountTasks(addressHex, blockNumber)
  /\ aPar' = [AccountParIdle EXCEPT !.nonce = "pending", !.balance = "pending"]
  /\ UNCHANGED aCallbacks

\* results._exists = results.nonce !== '0x0' || results.balance != '0x0' ||
\*                   results._code != '0x'
\* (a property the results object does not have reads as undefined)
AccountExists(results) ==
  \/ results.nonce # "0x0"
  \/ results.balance # "0x0"
  \/ (IF HasProp(results, "_code") THEN results._code ELSE Undefined) # "0x"

\* new Account(results)
NewAccount(results) ==
  [nonce |-> results.nonce, balance |-> results.balance,
   exists |-> AccountExists(results)]

\* a task of async.parallel calls back: the callback of _fetchAccountNonce or
\* _fetchAccountBalance (if (err) return cb(err); cb(null, results.result)).
\* The final callback runs once: with the first error, or after the last
\* success, when it builds the account
AccountTaskDone(task, err) ==
  /\ AccountFrame
  /\ aPar[task] = "pending"
  /\ IF err # Null
       THEN /\ aPar' = [aPar EXCEPT ![task] = "err", !.called = TRUE]
            /\ aCallbacks' = IF aPar.called THEN aCallbacks
                             ELSE Append(aCallbacks, [err |-> err, account |-> NoAccount])
       ELSE LET par == [aPar EXCEPT ![task] = "ok", !.results[task] = aUpstream[task]]
            IN  IF par.nonce = "ok" /\ par.balance = "ok" /\ ~ par.called
                  THEN /\ aPar' = [par EXCEPT !.called = TRUE]
                       /\ aCallbacks' = Append(aCallbacks,
                            [err |-> Null, account |-> NewAccount(par.results)])
                  ELSE /\ aPar' = par
                       /\ UNCHANGED aCallbacks
  /\ UNCHANGED <<aArgs, aUpstream, aEmitted>>

NextAccount ==
  \/ \E blockNumber \in AccountBlockNumbers, address \in AccountAddresses,
          upstream \in UpstreamAccounts : FetchAccount(blockNumber, address, upstream)
  \/ \E task \in {"nonce", "balance"} : AccountTaskDone(task, Null)
  \/ \E task \in {"nonce", "balance"} : AccountTaskDone(task, FetchError)

\* the requests that follow the gate alone: simulate-calls, with a transaction
\* object or without one
GatePayloads(id) == { p \in VmPayloads(id) : p.method = "eth_call" }

\* the engine runs that follow the gate alone: the successful ones
GateOutcomes == { o \in EngineOutcomes : o.err = Null }

NextGate ==
  \/ \E id \in 1..NumAwaits : \E p \in GatePayloads(id) : SendAsync(p)
  \/ RunContinuation
  \/ \E r \in 1..NumAwaits, o \in GateOutcomes : EngineDone(r, o)

\* ---------------------------------------------------------------- vm claims

Reqs == 1..Len(vpc)

\* the simulate-call and estimate-gas requests
OwnReqs == { r \in Reqs : vPayload[r].method \in {"eth_call", "eth_estimateGas"} }

\* those whose engine invocation has started and not yet called back
EngineRuns == { r \in OwnReqs : vpc[r] = "engine" }

\* the callback chain of request r has ended, by returning or by throwing
Ended(r) == vpc[r] \in {"done", "thrown"}

\* the message begins with one of the recognized domain-error prefixes
HasDomainPrefix(message) ==
  \E prefix \in {"sender doesn't have enough funds to send tx.",
                 "the tx doesn't have the correct nonce. account has nonce of:"} :
    /\ Len(message) >= Len(prefix)
    /\ SubSeq(message, 1, Len(prefix)) = prefix

\* C1: at most one engine invocation (vm.runTx started and not yet called back)
\* is in progress at any time, whatever the arrival pattern of the requests.
C1_AtMostOneEngineRun == Cardinality(EngineRuns) <= 1

\* C2: every execution that closed the gate and has ended, by whatever outcome
\* (engine success, engine error, failure of the setup between stop() and
\* vm.runTx), has released the gate exactly once.
C2_ReleasedExactlyOncePerClose ==
  \A r \in OwnReqs : (Ended(r) /\ vStops[r] > 0) => vGos[r] = 1

\* C3: a simulate-call or estimate-gas request whose engine run failed with a
\* recognized domain-error message is answered once, with a non-error response
\* that carries a populated error field.
C3_DomainErrorIsSuccessWithErrorField ==
  \A r \in OwnReqs :
    ( /\ Ended(r)
      /\ vOutcome[r].err # Undefined
      /\ vOutcome[r].err # Null
      /\ HasDomainPrefix(vOutcome[r].err) )
    => /\ Len(vResp[r]) = 1
       /\ vResp[r][1].err = Null
       /\ "error" \in DOMAIN vResp[r][1].res
       /\ vResp[r][1].res.error # Undefined

\* C7: a payload whose method is not one the subprovider resolves is declined:
\* the subprovider answers it neither with a result nor with an error, does not
\* touch the gate and does not invoke the engine for it.
C7_UnrecognizedMethodDeclined ==
  \A r \in Reqs \ OwnReqs :
         /\ vpc[r] = "pending"
         /\ vStops[r] = 0
         /\ vEngineArg[r] = <<>>
         /\ vResp[r] = <<>>

\* how often continuation r occurs in the sequence q
Occurrences(q, r) == Cardinality({ i \in 1..Len(q) : q[i] = r })

\* the continuations that were queued at the closed gate when go() was last called
QueuedAtGo == { vQueuedAtGo[i] : i \in 1..Len(vQueuedAtGo) }

\* C11: the continuations awaited while the gate was closed are all released by
\* one open(), in the order they were enqueued (an open gate holds no queued
\* continuation, none of those queued at the open() stays queued, and they are
\* scheduled in their order of arrival); a second open() right after changes
\* neither the gate nor what was released, and every continuation is queued,
\* scheduled or run exactly once in total.
C11_OpenReleasesAllFifoOnce ==
  /\ ~ isLocked => waiting = <<>>
  /\ \A r \in QueuedAtGo : Occurrences(waiting, r) = 0
  /\ \A i, j \in 1..Len(runnable) :
       (i < j /\ runnable[i] \in QueuedAtGo /\ runnable[j] \in QueuedAtGo)
         => runnable[i] < runnable[j]
  /\ \A i, j \in 1..Len(waiting) : i < j => waiting[i] < waiting[j]
  /\ \A r \in Reqs :
       Occurrences(waiting, r) + Occurrences(runnable, r) + vStops[r] = 1
  /\ Go(Go(Gate)) = Go(Gate)

\* one go() has released two continuations that were awaited while the gate was
\* closed, in their order of arrival
C11_Witness ==
  /\ vQueuedAtGo = <<2, 3>>
  /\ ~ isLocked /\ waiting = <<>> /\ runnable = <<2, 3>>

\* the engine run of request r has failed with a message that does not begin
\* with a recognized domain-error prefix
FailedFatally(r) ==
  /\ vOutcome[r].err # Undefined
  /\ vOutcome[r].err # Null
  /\ ~ HasDomainPrefix(vOutcome[r].err)

\* C13: a request whose engine run failed with a message without a recognized
\* domain-error prefix, or one of whose fallback fetches failed, ends with that
\* error handed to the caller's callback exactly once and without a result; the
\* engine was invoked once for it, the failed fetch is not emitted again, and
\* the gate was released once.
C13_FatalErrorReportedOnce ==
  \A r \in OwnReqs :
    /\ (Ended(r) /\ FailedFatally(r))
         => /\ vResp[r] = <<[err |-> vOutcome[r].err, res |-> Undefined]>>
            /\ Len(vEngineArg[r]) = 1
            /\ vGos[r] = 1
    /\ vFetchErr[r] # Null
         => /\ \A p \in vFetches[r] : p.method \in {"eth_getTransactionCount", "eth_getBalance"}
            /\ Cardinality(vFetches[r]) <= 1
            /\ Ended(r) =>
                 /\ vResp[r] = <<[err |-> vFetchErr[r], res |-> Undefined]>>
                 /\ Len(vEngineArg[r]) = 1
                 /\ vGos[r] = 1

\* a fetch of the account lookup failed while the other was outstanding; the
\* request has ended with the fetch's error, reported once, and the gate is open
C13_Witness ==
  \E r \in OwnReqs :
    /\ vFetchErr[r] = FetchError
    /\ vFetches[r] # {}
    /\ vpc[r] = "done"
    /\ vResp[r] = <<[err |-> FetchError, res |-> Undefined]>>
    /\ ~ isLocked

\* the requests whose continuation has created their code store
Started == { r \in Reqs : vCodeStore[r] # 0 }
\* the requests whose engine holds a storage trie
WithTrie == { r \in Reqs : vTrie[r] # 0 }

\* C14: the code store and the storage trie of a request are objects of that
\* request alone, in whatever order the requests run or interleave: no two
\* requests hold the same store or the same trie, and a request's store and
\* trie hold nothing but what was fetched for it or written by its own engine
\* (never a value another request's engine wrote).
C14_StateIsPrivate ==
  /\ \A r1, r2 \in Started : r1 # r2 => vCodeStore[r1] # vCodeStore[r2]
  /\ \A r1, r2 \in WithTrie : r1 # r2 => vTrie[r1] # vTrie[r2]
  /\ \A r \in Started : \A a \in ExecAddresses :
       codeStores[vCodeStore[r]][a] \in {Undefined, UpstreamCode, EngineCode(r)}
  /\ \A r \in WithTrie : \A k \in DOMAIN tries[vTrie[r]].slots :
       tries[vTrie[r]].slots[k] = EngineWord(r)

\* request 1 has ended after its engine wrote a code and a storage word for the
\* callee; the engine of request 2 asked for the same code and slot afterwards
\* or meanwhile: its own store and trie hold neither, and its get went upstream
C14_Witness ==
  /\ Len(vpc) = 2
  /\ vpc[1] = "done" /\ vpc[2] = "engine"
  /\ vTrie[1] # 0 /\ vTrie[2] # 0
  /\ \A a \in ExecAddresses :
       /\ codeStores[vCodeStore[1]][a] = EngineCode(1)
       /\ codeStores[vCodeStore[2]][a] = Undefined
       /\ vFetches[2] = {FetchAccountCodePayload(a, vBlockNumber[2])}
  /\ tries[vTrie[1]].slots = [k \in Slots |-> EngineWord(1)]
  /\ DOMAIN tries[vTrie[2]].slots = {}

\* C17: when the storage fetch of FallbackStorageTrie.get is answered with a
\* value, the trie holds a value for that slot afterwards, so that a second get
\* of the slot is served locally and causes no second storage fetch.
C17_FetchedSlotIsCached ==
  [][ \A r \in DOMAIN vFetches : \A p \in vFetches[r] :
        (p.method = "eth_getStorageAt" /\ p \notin vFetches'[r] /\ vFetchErr'[r] = Null)
          => p.params[2] \in DOMAIN tries'[vTrie[r]].slots ]_vars

\* the number of the block handed to the engine for request r, as the fetches
\* carry it
EngineBlockNumber(r) == "0x" \o NumToHex(vEngineArg[r][1].block.number)

\* C19: every fetch emitted for a request (nonce, balance, code, storage slot)
\* and the storage trie created for it carry the number of the block handed to
\* its engine, also when the root provider's current block has advanced since.
C19_FetchesCarryEngineBlock ==
  \A r \in Reqs :
    vEngineArg[r] # <<>> =>
      /\ \A p \in vFetches[r] : p.params[Len(p.params)] = EngineBlockNumber(r)
      /\ r \in WithTrie => tries[vTrie[r]].blockNumber = EngineBlockNumber(r)

\* the current block has advanced while the engine of a request was running
\* and another request waited at the closed gate; the storage fetch emitted
\* since carries the number of the engine's block, not the current one
C19_Witness ==
  \E r \in Reqs :
    /\ vpc[r] = "engine"
    /\ waiting # <<>>
    /\ currentBlock.number = FirstBlockNumber + 1
    /\ vEngineArg[r][1].block.number = FirstBlockNumber
    /\ \E p \in vFetches[r] :
         /\ p.method = "eth_getStorageAt"
         /\ p.params[3] = "0x10"

\* the engine run of request r has called back, with results or with an error
EngineCalledBack(r) == vOutcome[r].err # Undefined

\* C18: a simulate-call or estimate-gas request never gets two callbacks, and
\* once its engine run has called back (with results, a domain error or any
\* other error) and its callback chain has ended it has got exactly one.
C18_ExactlyOneCallback ==
  \A r \in OwnReqs :
    /\ Len(vResp[r]) <= 1
    /\ (Ended(r) /\ EngineCalledBack(r)) => Len(vResp[r]) = 1

\* the requests whose engine run produced results
Succeeded == { r \in OwnReqs : vpc[r] = "done" /\ vOutcome[r].err = Null }

\* what the engine reported for request r, in the form the response carries:
\* the return value 00 2a as 0x002a, none as the placeholder null; the gas
\* consumed 21000 as 0x5208, 0 as 0x0
ReportedReturnValue(r) ==
  IF "returnValue" \in DOMAIN vOutcome[r].results.vm
    THEN IF vOutcome[r].results.vm.returnValue = <<0, 42>> THEN "0x002a" ELSE "?"
    ELSE "null"
ReportedGasUsed(r) ==
  CASE vOutcome[r].results.gasUsed = 21000 -> "0x5208"
    [] vOutcome[r].results.gasUsed = 0 -> "0x0"
    [] OTHER -> "?"

\* C20: a request whose engine run produced results is answered once, without
\* error: a simulate-call with the engine's return value, or with the empty
\* placeholder when the run produced none (a callee without code); an
\* estimate-gas with the gas consumed the engine reported.
C20_ResultFromEngine ==
  \A r \in Succeeded :
    /\ Len(vResp[r]) = 1
    /\ vResp[r][1].err = Null
    /\ vResp[r][1].res.id = vPayload[r].id
    /\ vPayload[r].method = "eth_call" => vResp[r][1].res.result = ReportedReturnValue(r)
    /\ vPayload[r].method = "eth_estimateGas" => vResp[r][1].res.result = ReportedGasUsed(r)

\* a simulate-call answered with the return value, and a simulate-call whose
\* run produced no return value answered with the placeholder
C20_Witness ==
  /\ Len(vpc) = 2
  /\ vPayload[1].method = "eth_call" /\ vPayload[2].method = "eth_call"
  /\ 1 \in Succeeded /\ 2 \in Succeeded
  /\ vResp[1] = <<[err |-> Null, res |-> [id |-> 1, jsonrpc |-> "2.0", result |-> "0x002a"]]>>
  /\ "returnValue" \notin DOMAIN vOutcome[2].results.vm
  /\ vResp[2] = <<[err |-> Null, res |-> [id |-> 2, jsonrpc |-> "2.0", result |-> "null"]]>>

\* the methods of the payloads the account lookup emitted
AccountFetches == { aEmitted[i].method : i \in 1..Len(aEmitted) }

Init == InitStore /\ InitWallet /\ InitVm /\ InitAccount

SpecStore == Init /\ [][NextStore]_vars

SpecWallet == Init /\ [][NextWallet]_vars

SpecVm == Init /\ [][NextVm]_vars

SpecGate == Init /\ [][NextGate]_vars

SpecExec == Init /\ [][NextExec]_vars

SpecAccount == Init /\ [][NextAccount]_vars

====
